---- MODULE Spec2Model ----
(***************************************************************************)
(* Model of the Zepto ETL pipeline:                                        *)
(*   server/etl/data_processor.py  DataProcessor (rule engine, reporter)   *)
(*   server/etl/etl_pipeline.py    ZeptoETLPipeline (normalizer, sink)     *)
(*                                                                         *)
(* A DataFrame is a sequence of row records; the field idx is the row's    *)
(* pandas index label.  A cell that pandas may hold as NaN is an option:   *)
(* <<>> is NaN, <<v>> is the value v.  Text is a sequence of characters.   *)
(* Arithmetic on discounts is exact (rational, by cross-multiplication);    *)
(* the tables checked hold an mrp that is a power of two, for which the    *)
(* code's float64 quotient (mrp - dsp) / mrp and its product with 100 are  *)
(* exact as well.                                                          *)
(***************************************************************************)
EXTENDS Integers, Sequences, FiniteSets, TLC

VARIABLES
    df,                   \* validate_business_rules: the argument table
    valid_df,             \* validate_business_rules: the working copy
    validation_messages,  \* validate_business_rules: messages so far
    pc,                   \* validate_business_rules: position in the function
    pass,                 \* 1: first call, 2: call on the first call's result
    first_df,             \* the argument of the first call
    astype_str_keeps_na,  \* the pandas build: astype(str) keeps NaN missing
    raw_data,             \* run_etl: the table extract_data returned
    transformed_data,     \* run_etl: the table transform_data returned
    etl_pc,               \* run_etl / load_data: position
    connection,           \* self.connection: "none", "open" or "closed"
    table_exists,         \* the store: table zepto exists
    zepto,                \* the store: committed rows of table zepto
    txn,                  \* the store: the open transaction's view of zepto, or NoTxn
    load_df,              \* load_data: its argument df, once called
    data_tuples,          \* load_data: the tuples to insert
    batch_start,          \* load_data: i, the offset of the next batch
    batch_size,           \* load_data: its argument batch_size
    zepto_before,         \* committed rows of zepto when load_data was called
    load_result,          \* load_data: "pending", "true" (returned) or "raised"
    status,               \* run_etl: 'status' of the summary returned
    report_df,            \* generate_data_quality_report: the argument table
    report,               \* generate_data_quality_report: what it returned
    report_pc,            \* generate_data_quality_report: "call", "returned", "raised"
    cur_df,               \* clean_currency_values: the argument table df
    cur_arg,              \* the table df was when clean_currency_values was called
    currency_columns,     \* clean_currency_values: the argument currency_columns
    cleaned_df,           \* clean_currency_values: the copy being cleaned
    cur_k,                \* clean_currency_values: the for loop's position in the list
    cur_pc,               \* clean_currency_values: "loop" or "returned"
    out_column,           \* detect_outliers: the values of df[column]
    out_method,           \* detect_outliers: the argument method
    out_result,           \* detect_outliers: the mask returned or the error raised
    out_pc                \* detect_outliers: "call", "returned" or "raised"

rule_vars == <<df, valid_df, validation_messages, pc, pass, first_df>>

config == <<astype_str_keeps_na, batch_size>>
tables == <<raw_data, transformed_data>>
store == <<table_exists, zepto, txn>>
load_vars == <<load_df, data_tuples, batch_start, zepto_before, load_result>>

etl_vars == <<config, tables, etl_pc, connection, store, load_vars, status>>

report_vars == <<report_df, report, report_pc>>

currency_vars == <<cur_df, cur_arg, currency_columns, cleaned_df, cur_k, cur_pc>>

outlier_vars == <<out_column, out_method, out_result, out_pc>>

util_vars == <<currency_vars, outlier_vars>>

vars == <<rule_vars, etl_vars, report_vars, util_vars>>

\* ------------------------------------------------------------------ bounds

MaxRows == 2
MaxRawRows == 1
MaxEtlRows == 2
MaxReportRows == 4
MaxCurrencyRows == 2
MaxOutlierRows == 11

\* ------------------------------------------------------------------ helpers

Abs(x) == IF x < 0 THEN -x ELSE x

Range(s) == {s[i] : i \in 1..Len(s)}

SeqsUpTo(S, n) == UNION {[1..k -> S] : k \in 0..n}

Count(t, P(_)) == Len(SelectSeq(t, P))

\* numpy's round: to the nearest integer, a tie to the even one; n/d with d > 0
RoundHalfEven(n, d) ==
    LET q == n \div d
        r == n % d
    IN  IF 2 * r < d THEN q
        ELSE IF 2 * r > d THEN q + 1
        ELSE IF q % 2 = 0 THEN q ELSE q + 1

\* ------------------------------------------------------------------ inputs
\* Normalized tables: mrp > 0, discounted_selling_price > 0, discount_percent
\* an integer in [0,100], available_quantity any integer, out_of_stock boolean.

Mrps == {8}
SellingPrices == {3, 8, 9}
Discounts == {1, 62, 64}
Quantities == {-1, 0, 5}

Cells ==
    [mrp : Mrps, discounted_selling_price : SellingPrices,
     discount_percent : Discounts, available_quantity : Quantities,
     out_of_stock : BOOLEAN]

MkRow(i, c) ==
    [idx |-> i, category |-> <<"S">>, name |-> <<"p">>, mrp |-> c.mrp,
     discount_percent |-> c.discount_percent,
     available_quantity |-> c.available_quantity,
     discounted_selling_price |-> c.discounted_selling_price,
     weight_in_gms |-> 100, out_of_stock |-> c.out_of_stock, quantity |-> 1]

MkTable(cs) == [i \in 1..Len(cs) |-> MkRow(i, cs[i])]

Tables == {MkTable(cs) : cs \in SeqsUpTo(Cells, MaxRows)}

\* ------------------------------------------------------------------ rules
\* Each rule: table in, [df, msgs] out (msgs is empty or one message).

\* mutant: the comparison also catches equal prices
InvalidPricingOrEqual(r) == r.mrp <= r.discounted_selling_price

InvalidPricing(r) == r.mrp < r.discounted_selling_price

ApplyRule1(t) ==
    LET count == Count(t, InvalidPricing)
    IN  IF count > 0
        THEN [df |-> SelectSeq(t, LAMBDA r : ~InvalidPricing(r)),
              msgs |-> << <<"Removed", count, "products with MRP < Selling Price">> >>]
        ELSE [df |-> t, msgs |-> <<>>]

\* calculated_discount = ((mrp - dsp) / mrp) * 100 as the fraction CalcNum/CalcDen
CalcNum(r) == 100 * (r.mrp - r.discounted_selling_price)
CalcDen(r) == r.mrp

\* mutants: a tolerance of 2 points; no tolerance at all
DiscountMismatchLoose(r) ==
    Abs(r.discount_percent * CalcDen(r) - CalcNum(r)) > 2 * CalcDen(r)
DiscountMismatchExact(r) ==
    Abs(r.discount_percent * CalcDen(r) - CalcNum(r)) > 0

\* abs(discount_percent - calculated_discount) > 1
DiscountMismatch(r) ==
    Abs(r.discount_percent * CalcDen(r) - CalcNum(r)) > 1 * CalcDen(r)

ApplyRule2(t) ==
    LET count == Count(t, DiscountMismatch)
    IN  IF count > 0
        THEN [df |-> [i \in 1..Len(t) |->
                        IF DiscountMismatch(t[i])
                        THEN [t[i] EXCEPT !.discount_percent =
                                  RoundHalfEven(CalcNum(t[i]), CalcDen(t[i]))]
                        ELSE t[i]],
              msgs |-> << <<"Fixed", count, "products with incorrect discount percentages">> >>]
        ELSE [df |-> t, msgs |-> <<>>]

\* mutant: any non-zero quantity counts
InvalidStockNonZero(r) == r.out_of_stock = TRUE /\ r.available_quantity # 0

InvalidStock(r) == r.out_of_stock = TRUE /\ r.available_quantity > 0

ApplyRule3(t) ==
    LET count == Count(t, InvalidStock)
    IN  IF count > 0
        THEN [df |-> [i \in 1..Len(t) |->
                        IF InvalidStock(t[i])
                        THEN [t[i] EXCEPT !.available_quantity = 0]
                        ELSE t[i]],
              msgs |-> << <<"Fixed", count, "out-of-stock products with non-zero availability">> >>]
        ELSE [df |-> t, msgs |-> <<>>]

ZeroQuantity(r) == r.available_quantity = 0 /\ r.out_of_stock = FALSE

ApplyRule4(t) ==
    LET count == Count(t, ZeroQuantity)
    IN  IF count > 0
        THEN [df |-> [i \in 1..Len(t) |->
                        IF ZeroQuantity(t[i])
                        THEN [t[i] EXCEPT !.out_of_stock = TRUE]
                        ELSE t[i]],
              msgs |-> << <<"Marked", count, "zero-quantity products as out of stock">> >>]
        ELSE [df |-> t, msgs |-> <<>>]

\* The whole function, as one value
ValidateBusinessRules(t) ==
    LET r1 == ApplyRule1(t)
        r2 == ApplyRule2(r1.df)
        r3 == ApplyRule3(r2.df)
        r4 == ApplyRule4(r3.df)
    IN  [df |-> r4.df, msgs |-> r1.msgs \o r2.msgs \o r3.msgs \o r4.msgs]


\* ------------------------------------------------------------------ normalizer
\* ZeptoETLPipeline.transform_data.  A raw cell is NaN (<<>>) or <<text>>, the
\* text a sequence of characters, as read_csv hands it over.

NaN == <<>>
IsNa(c) == c = <<>>

DigitChars == {"0", "1", "2", "3", "4", "5", "6", "7", "8", "9"}

DigitValue(ch) ==
    CASE ch = "0" -> 0 [] ch = "1" -> 1 [] ch = "2" -> 2 [] ch = "3" -> 3
      [] ch = "4" -> 4 [] ch = "5" -> 5 [] ch = "6" -> 6 [] ch = "7" -> 7
      [] ch = "8" -> 8 [] ch = "9" -> 9

RECURSIVE DigitsValue(_)
DigitsValue(s) ==
    IF s = <<>> THEN 0
    ELSE 10 * DigitsValue(SubSeq(s, 1, Len(s) - 1)) + DigitValue(s[Len(s)])

AllDigits(s) == s # <<>> /\ \A i \in 1..Len(s) : s[i] \in DigitChars

\* pd.to_numeric(errors='coerce') on one cell: the number, or NaN
ToNumeric(c) ==
    IF IsNa(c) THEN NaN
    ELSE LET s == c[1]
         IN  IF AllDigits(s) THEN <<DigitsValue(s)>>
             ELSE IF s # <<>> /\ s[1] = "-" /\ AllDigits(Tail(s))
                  THEN <<0 - DigitsValue(Tail(s))>>
             ELSE NaN

\* .map({'TRUE': True, 'FALSE': False, True: True, False: False}) on one cell
MapOutOfStock(c) ==
    IF IsNa(c) THEN NaN
    ELSE IF c[1] = <<"T", "R", "U", "E">> THEN <<TRUE>>
    ELSE IF c[1] = <<"F", "A", "L", "S", "E">> THEN <<FALSE>>
    ELSE NaN

RECURSIVE LStrip(_)
LStrip(s) == IF s # <<>> /\ s[1] = " " THEN LStrip(Tail(s)) ELSE s

RECURSIVE RStrip(_)
RStrip(s) ==
    IF s # <<>> /\ s[Len(s)] = " " THEN RStrip(SubSeq(s, 1, Len(s) - 1)) ELSE s

\* .astype(str).str.strip() on one cell.  astype(str) turns NaN into the text
\* 'nan' (pandas < 3) or keeps it missing (pandas >= 3): keeps_na is the build.
AsTypeStrStrip(c, keeps_na) ==
    IF IsNa(c)
    THEN IF keeps_na THEN NaN ELSE << <<"n", "a", "n">> >>
    ELSE <<RStrip(LStrip(c[1]))>>

\* rename(columns=column_mapping), the type conversions and the text cleaning
Coerce(r, keeps_na) ==
    [idx |-> r.idx,
     category |-> AsTypeStrStrip(r.Category, keeps_na),
     name |-> AsTypeStrStrip(r.name, keeps_na),
     mrp |-> ToNumeric(r.mrp),
     discount_percent |-> ToNumeric(r.discountPercent),
     available_quantity |-> ToNumeric(r.availableQuantity),
     discounted_selling_price |-> ToNumeric(r.discountedSellingPrice),
     weight_in_gms |-> ToNumeric(r.weightInGms),
     out_of_stock |-> MapOutOfStock(r.outOfStock),
     quantity |-> ToNumeric(r.quantity)]

\* dropna(subset=essential_columns)
HasEssentials(r) ==
    ~IsNa(r.category) /\ ~IsNa(r.name) /\ ~IsNa(r.mrp)
        /\ ~IsNa(r.discounted_selling_price)

\* a comparison with NaN is False
Gt(c, n) == ~IsNa(c) /\ c[1] > n
Ge(c, n) == ~IsNa(c) /\ c[1] >= n
Le(c, n) == ~IsNa(c) /\ c[1] <= n

PositivePrices(r) == Gt(r.mrp, 0) /\ Gt(r.discounted_selling_price, 0)

\* mutant: the upper end of the range is not checked
DiscountNotNegative(r) == Ge(r.discount_percent, 0)

DiscountInRange(r) == Ge(r.discount_percent, 0) /\ Le(r.discount_percent, 100)

FillNa(c, default) == IF IsNa(c) THEN default ELSE c[1]

\* the fillna defaults; every other cell holds a value by now
FillDefaults(r) ==
    [idx |-> r.idx, category |-> r.category[1], name |-> r.name[1],
     mrp |-> r.mrp[1], discount_percent |-> r.discount_percent[1],
     available_quantity |-> FillNa(r.available_quantity, 0),
     discounted_selling_price |-> r.discounted_selling_price[1],
     weight_in_gms |-> FillNa(r.weight_in_gms, 0),
     out_of_stock |-> FillNa(r.out_of_stock, FALSE),
     quantity |-> FillNa(r.quantity, 1)]

MapRows(t, f(_)) == [i \in 1..Len(t) |-> f(t[i])]

TransformData(raw, keeps_na) ==
    LET typed == MapRows(raw, LAMBDA r : Coerce(r, keeps_na))
        essential == SelectSeq(typed, HasEssentials)
        positive == SelectSeq(essential, PositivePrices)
        ranged == SelectSeq(positive, DiscountInRange)
    IN  MapRows(ranged, FillDefaults)

\* raw tables
Txt(s) == <<s>>

RawCategories == {NaN, Txt(<<" ", "S">>)}
RawNames == {NaN, Txt(<<"p">>)}
RawMrps == {Txt(<<"8">>), Txt(<<"0">>), Txt(<<"x">>)}
RawSellingPrices == {Txt(<<"3">>), Txt(<<"-", "1">>), NaN}
RawDiscounts == {Txt(<<"6", "2">>), Txt(<<"1", "5", "0">>), Txt(<<"x">>)}

RawQuantities == {NaN, Txt(<<"5">>)}
RawFlags == {Txt(<<"T", "R", "U", "E">>), Txt(<<"y", "e", "s">>)}

RawCells ==
    [Category : RawCategories, name : RawNames, mrp : RawMrps,
     discountedSellingPrice : RawSellingPrices, discountPercent : RawDiscounts,
     availableQuantity : RawQuantities, outOfStock : RawFlags]

MkRawRow(i, c) ==
    [idx |-> i, Category |-> c.Category, name |-> c.name, mrp |-> c.mrp,
     discountPercent |-> c.discountPercent,
     availableQuantity |-> c.availableQuantity,
     discountedSellingPrice |-> c.discountedSellingPrice,
     weightInGms |-> Txt(<<"1", "0", "0">>),
     outOfStock |-> c.outOfStock, quantity |-> NaN]

MkRawTable(cs) == [i \in 1..Len(cs) |-> MkRawRow(i, cs[i])]

RawTables == {MkRawTable(cs) : cs \in SeqsUpTo(RawCells, MaxRawRows)}

\* ------------------------------------------------------------------ actions

\* the rule engine at rest / the pipeline at rest
RulesIdle ==
    /\ df = <<>>
    /\ valid_df = <<>>
    /\ validation_messages = <<>>
    /\ pc = "idle"
    /\ pass = 0
    /\ first_df = <<>>

PipelineIdle ==
    /\ raw_data = <<>>
    /\ transformed_data = <<>>
    /\ etl_pc = "idle"
    /\ connection = "none"
    /\ table_exists = FALSE
    /\ zepto = <<>>
    /\ txn = <<>>
    /\ load_df = <<>>
    /\ data_tuples = <<>>
    /\ batch_start = 0
    /\ batch_size = 0
    /\ zepto_before = <<>>
    /\ load_result = "pending"
    /\ status = "none"

EtlIdle ==
    /\ astype_str_keeps_na = FALSE
    /\ PipelineIdle

CurrencyIdle ==
    /\ cur_df = <<>>
    /\ cur_arg = <<>>
    /\ currency_columns = <<>>
    /\ cleaned_df = <<>>
    /\ cur_k = 0
    /\ cur_pc = "idle"

OutlierIdle ==
    /\ out_column = <<>>
    /\ out_method = "none"
    /\ out_result = <<>>
    /\ out_pc = "idle"

ReportIdle ==
    /\ report_df = <<>>
    /\ report = <<>>
    /\ report_pc = "idle"

UtilIdle ==
    /\ CurrencyIdle
    /\ OutlierIdle

Init ==
    /\ df \in Tables
    /\ valid_df = df
    /\ validation_messages = <<>>
    /\ pc = "rule1"
    /\ pass = 1
    /\ first_df = df
    /\ EtlIdle
    /\ ReportIdle
    /\ UtilIdle

\* one rule applied to the working copy; its message, if any, appended
Step(res, next) ==
    /\ valid_df' = res.df
    /\ validation_messages' = validation_messages \o res.msgs
    /\ pc' = next
    /\ UNCHANGED <<df, pass, first_df, etl_vars, report_vars, util_vars>>

Rule1 == pc = "rule1" /\ Step(ApplyRule1(valid_df), "rule2")
Rule2 == pc = "rule2" /\ Step(ApplyRule2(valid_df), "rule3")
Rule3 == pc = "rule3" /\ Step(ApplyRule3(valid_df), "rule4")
Rule4 == pc = "rule4" /\ Step(ApplyRule4(valid_df), "done")

\* validate_business_rules called again, on the table it returned
Reapply ==
    /\ pc = "done"
    /\ pass = 1
    /\ df' = valid_df
    /\ valid_df' = valid_df
    /\ validation_messages' = <<>>
    /\ pc' = "rule1"
    /\ pass' = 2
    /\ UNCHANGED <<first_df, etl_vars, report_vars, util_vars>>

Next == Rule1 \/ Rule2 \/ Rule3 \/ Rule4 \/ Reapply

Spec == Init /\ [][Next]_vars

\* ------------------------------------------------------------------ pipeline
\* ZeptoETLPipeline.run_etl and load_data against the store.  The connection
\* does not autocommit: TRUNCATE and the INSERTs act on the open transaction's
\* view (txn) and reach the committed rows (zepto) at commit().

NoTxn == <<>>

DefaultBatchSize == 1000
BatchSizes == {1, 2, DefaultBatchSize}

\* tuple(row) for row in df[columns].values
RowTuple(r) ==
    <<r.category, r.name, r.mrp, r.discount_percent, r.available_quantity,
      r.discounted_selling_price, r.weight_in_gms, r.out_of_stock, r.quantity>>

OldTuple == <<<<"O">>, <<"o">>, 500, 10, 1, 450, 50, FALSE, 1>>
OldTables == {<<>>, <<OldTuple>>}

EtlRawCells ==
    [Category : RawCategories, name : {Txt(<<"p">>)}, mrp : {Txt(<<"8">>)},
     discountedSellingPrice : {Txt(<<"3">>), Txt(<<"9">>)},
     discountPercent : {Txt(<<"6", "2">>)}, availableQuantity : {NaN},
     outOfStock : {Txt(<<"T", "R", "U", "E">>)}]

EtlRawTables == {MkRawTable(cs) : cs \in SeqsUpTo(EtlRawCells, MaxEtlRows)}

\* the store's operations on [zepto, txn]: committed rows and transaction view
View(db) == IF db.txn = NoTxn THEN db.zepto ELSE db.txn[1]

\* mutant: the TRUNCATE is committed at once
DbTruncateCommitted(db) == [zepto |-> <<>>, txn |-> NoTxn]

DbTruncate(db) == [zepto |-> db.zepto, txn |-> << <<>> >>]
DbInsert(db, batch) == [zepto |-> db.zepto, txn |-> <<View(db) \o batch>>]
DbCommit(db) == [zepto |-> View(db), txn |-> NoTxn]
DbRollback(db) == [zepto |-> db.zepto, txn |-> NoTxn]

Db == [zepto |-> zepto, txn |-> txn]

SetDb(db) ==
    /\ zepto' = db.zepto
    /\ txn' = db.txn

EtlInit ==
    /\ astype_str_keeps_na \in BOOLEAN
    /\ batch_size \in BatchSizes
    /\ raw_data = <<>>
    /\ transformed_data = <<>>
    /\ etl_pc = "connect"
    /\ connection = "none"
    /\ table_exists \in BOOLEAN
    /\ zepto \in (IF table_exists THEN OldTables ELSE {<<>>})
    /\ txn = NoTxn
    /\ load_df = <<>>
    /\ data_tuples = <<>>
    /\ batch_start = 0
    /\ zepto_before = zepto
    /\ load_result = "pending"
    /\ status = "running"
    /\ RulesIdle
    /\ ReportIdle
    /\ UtilIdle

\* connect_to_database: returns False on failure, and run_etl raises
Connect ==
    /\ etl_pc = "connect"
    /\ \/ connection' = "open" /\ etl_pc' = "extract"
       \/ connection' = "none" /\ etl_pc' = "except"
    /\ UNCHANGED <<config, tables, store, load_vars, status, rule_vars, report_vars, util_vars>>

Extract ==
    /\ etl_pc = "extract"
    /\ \/ raw_data' \in EtlRawTables /\ etl_pc' = "transform"
       \/ raw_data' = raw_data /\ etl_pc' = "except"
    /\ UNCHANGED <<config, transformed_data, connection, store, load_vars, status,
                   rule_vars, report_vars, util_vars>>

Transform ==
    /\ etl_pc = "transform"
    /\ transformed_data' = TransformData(raw_data, astype_str_keeps_na)
    /\ etl_pc' = "load"
    /\ UNCHANGED <<config, raw_data, connection, store, load_vars, status,
                   rule_vars, report_vars, util_vars>>

\* run_etl calls self.load_data(transformed_data)
LoadData ==
    /\ etl_pc = "load"
    /\ load_df' = <<transformed_data>>
    /\ zepto_before' = zepto
    /\ etl_pc' = "create_table"
    /\ UNCHANGED <<config, tables, connection, store, data_tuples, batch_start,
                   load_result, status, rule_vars, report_vars, util_vars>>

\* create_table_if_not_exists: CREATE TABLE IF NOT EXISTS, then commit()
CreateTable ==
    /\ etl_pc = "create_table"
    /\ \/ table_exists' = TRUE /\ etl_pc' = "truncate"
       \/ table_exists' = table_exists /\ etl_pc' = "load_except"
    /\ UNCHANGED <<config, tables, connection, zepto, txn, load_vars, status,
                   rule_vars, report_vars, util_vars>>

\* TRUNCATE TABLE zepto RESTART IDENTITY, then data_tuples is built
Truncate ==
    /\ etl_pc = "truncate"
    /\ \/ /\ SetDb(DbTruncate(Db))
          /\ data_tuples' = MapRows(load_df[1], RowTuple)
          /\ batch_start' = 0
          /\ etl_pc' = "insert"
       \/ /\ UNCHANGED <<zepto, txn, data_tuples, batch_start>>
          /\ etl_pc' = "load_except"
    /\ UNCHANGED <<config, tables, connection, table_exists, load_df, zepto_before,
                   load_result, status, rule_vars, report_vars, util_vars>>

Min(a, b) == IF a < b THEN a ELSE b

\* one turn of: for i in range(0, len(data_tuples), batch_size)
InsertBatch ==
    /\ etl_pc = "insert"
    /\ batch_start < Len(data_tuples)
    /\ \/ /\ SetDb(DbInsert(Db, SubSeq(data_tuples, batch_start + 1,
                                      Min(batch_start + batch_size, Len(data_tuples)))))
          /\ batch_start' = batch_start + batch_size
          /\ etl_pc' = "insert"
       \/ /\ UNCHANGED <<zepto, txn, batch_start>>
          /\ etl_pc' = "load_except"
    /\ UNCHANGED <<config, tables, connection, table_exists, load_df, data_tuples,
                   zepto_before, load_result, status, rule_vars, report_vars, util_vars>>

\* self.connection.commit() after the last batch, and return True
Commit ==
    /\ etl_pc = "insert"
    /\ batch_start >= Len(data_tuples)
    /\ \/ SetDb(DbCommit(Db)) /\ load_result' = "true" /\ etl_pc' = "validate"
       \/ UNCHANGED <<zepto, txn, load_result>> /\ etl_pc' = "load_except"
    /\ UNCHANGED <<config, tables, connection, table_exists, load_df, data_tuples,
                   batch_start, zepto_before, status, rule_vars, report_vars, util_vars>>

\* load_data's except: rollback() and raise
LoadExcept ==
    /\ etl_pc = "load_except"
    /\ SetDb(DbRollback(Db))
    /\ load_result' = "raised"
    /\ etl_pc' = "except"
    /\ UNCHANGED <<config, tables, connection, table_exists, load_df, data_tuples,
                   batch_start, zepto_before, status, rule_vars, report_vars, util_vars>>

\* validate_loaded_data (a read of the committed rows), then the 'success'
\* summary
ValidateLoaded ==
    /\ etl_pc = "validate"
    /\ \/ status' = "success" /\ etl_pc' = "finally"
       \/ status' = status /\ etl_pc' = "except"
    /\ UNCHANGED <<config, tables, connection, store, load_vars, rule_vars,
                   report_vars, util_vars>>

\* run_etl's except: the 'failed' summary
Except ==
    /\ etl_pc = "except"
    /\ status' = "failed"
    /\ etl_pc' = "finally"
    /\ UNCHANGED <<config, tables, connection, store, load_vars, rule_vars,
                   report_vars, util_vars>>

\* run_etl's finally: close the connection, which ends an open transaction
Finally ==
    /\ etl_pc = "finally"
    /\ connection' = IF connection = "open" THEN "closed" ELSE connection
    /\ SetDb(DbRollback(Db))
    /\ etl_pc' = "done"
    /\ UNCHANGED <<config, tables, table_exists, load_vars, status, rule_vars,
                   report_vars, util_vars>>

EtlNext ==
    \/ Connect \/ Extract \/ Transform \/ LoadData \/ CreateTable \/ Truncate
    \/ InsertBatch \/ Commit \/ LoadExcept \/ ValidateLoaded \/ Except \/ Finally

SpecETL == EtlInit /\ [][EtlNext]_vars

\* transform_data alone, over the raw tables
NormalizerInit ==
    /\ astype_str_keeps_na \in BOOLEAN
    /\ batch_size = 0
    /\ raw_data \in RawTables
    /\ transformed_data = <<>>
    /\ etl_pc = "transform"
    /\ connection = "none"
    /\ table_exists = FALSE
    /\ zepto = <<>>
    /\ txn = NoTxn
    /\ load_df = <<>>
    /\ data_tuples = <<>>
    /\ batch_start = 0
    /\ zepto_before = <<>>
    /\ load_result = "pending"
    /\ status = "none"
    /\ RulesIdle
    /\ ReportIdle
    /\ UtilIdle

NormalizerNext == Transform

SpecNormalizer == NormalizerInit /\ [][NormalizerNext]_vars

\* ------------------------------------------------------------------ reporter
\* DataProcessor.detect_outliers and generate_data_quality_report, over a
\* cleaned table (every cell holds a value).  A statistic that pandas may
\* return as NaN is an option; round(x, 2) is in hundredths.

RECURSIVE Insert(_, _)
Insert(v, s) ==
    IF s = <<>> THEN <<v>>
    ELSE IF v <= s[1] THEN <<v>> \o s
    ELSE <<s[1]>> \o Insert(v, Tail(s))

RECURSIVE Sorted(_)
Sorted(s) == IF s = <<>> THEN <<>> ELSE Insert(s[1], Sorted(Tail(s)))

RECURSIVE Sum(_)
Sum(s) == IF s = <<>> THEN 0 ELSE s[1] + Sum(Tail(s))

Column(t, col) == [k \in 1..Len(t) |-> t[k][col]]

\* 4 * Series.quantile(k/4), linear interpolation; NaN on an empty column
Quantile4(vals, k) ==
    IF vals = <<>> THEN NaN
    ELSE LET s == Sorted(vals)
             pos == k * (Len(s) - 1)
             lo == pos \div 4 + 1
             fr == pos % 4
         IN  IF fr = 0 THEN <<4 * s[lo]>>
             ELSE <<4 * s[lo] + fr * (s[lo + 1] - s[lo])>>

\* (value < Q1 - 1.5*IQR) | (value > Q3 + 1.5*IQR), scaled by 8
IqrMask(vals) ==
    LET q1 == Quantile4(vals, 1)
        q3 == Quantile4(vals, 3)
    IN  [k \in 1..Len(vals) |->
            /\ ~IsNa(q1)
            /\ \/ 8 * vals[k] < 2 * q1[1] - 3 * (q3[1] - q1[1])
               \/ 8 * vals[k] > 2 * q3[1] + 3 * (q3[1] - q1[1])]

\* abs((value - mean) / std) > 3 with the sample std (ddof = 1); 0/0 and a
\* NaN std give NaN, and NaN > 3 is False.  Scaled by n^2 * (n - 1).
\* mutant: a z-score that is NaN counts as above 3
ZscoreMaskNanAbove(vals) ==
    LET n == Len(vals)
        dev(k) == n * vals[k] - Sum(vals)
        ss == Sum([k \in 1..n |-> dev(k) * dev(k)])
    IN  [k \in 1..n |->
            \/ n <= 1
            \/ ss = 0
            \/ (n - 1) * dev(k) * dev(k) > 9 * ss]

ZscoreMask(vals) ==
    LET n == Len(vals)
        dev(k) == n * vals[k] - Sum(vals)
        ss == Sum([k \in 1..n |-> dev(k) * dev(k)])
    IN  [k \in 1..n |->
            /\ n > 1
            /\ ss > 0
            /\ (n - 1) * dev(k) * dev(k) > 9 * ss]

DetectOutliers(vals, method) ==
    IF method = "iqr" THEN [raised |-> "none", mask |-> IqrMask(vals)]
    ELSE IF method = "zscore" THEN [raised |-> "none", mask |-> ZscoreMask(vals)]
    ELSE [raised |-> "ValueError", mask |-> <<>>]

Columns ==
    {"category", "name", "mrp", "discount_percent", "available_quantity",
     "discounted_selling_price", "weight_in_gms", "out_of_stock", "quantity"}

NumericColumns == {"mrp", "discounted_selling_price", "discount_percent", "weight_in_gms"}

\* round((count / len(df)) * 100, 2): numpy's 0/0 is NaN, not an exception
Percentage(count, n) ==
    IF n = 0 THEN NaN ELSE <<RoundHalfEven(count * 10000, n)>>

\* round(Series.mean(), 2); the mean of an empty column is NaN
Mean2(vals) ==
    IF vals = <<>> THEN NaN ELSE <<RoundHalfEven(Sum(vals) * 100, Len(vals))>>

\* Series.max() / Series.min(); NaN on an empty column
ColMax(vals) ==
    IF vals = <<>> THEN NaN ELSE <<CHOOSE m \in Range(vals) : \A v \in Range(vals) : v <= m>>
ColMin(vals) ==
    IF vals = <<>> THEN NaN ELSE <<CHOOSE m \in Range(vals) : \A v \in Range(vals) : m <= v>>

CountTrue(mask) == Len(SelectSeq(mask, LAMBDA x : x))

\* isnull().sum(): a cleaned table has a value in every cell
NullCount(t, col) == 0

GenerateDataQualityReport(t) ==
    LET n == Len(t)
        max_discount == ColMax(Column(t, "discount_percent"))
        min_discount == ColMin(Column(t, "discount_percent"))
    IN  \* int(NaN) raises ValueError
        IF IsNa(max_discount) \/ IsNa(min_discount)
        THEN [raised |-> "ValueError"]
        ELSE [raised |-> "none",
              total_rows |-> n,
              total_columns |-> Cardinality(Columns),
              missing_values |->
                  [col \in Columns |->
                      [count |-> NullCount(t, col),
                       percentage |-> Percentage(NullCount(t, col), n)]],
              unique_counts |->
                  [col \in Columns |-> Cardinality(Range(Column(t, col)))],
              outliers |->
                  [col \in NumericColumns |->
                      LET mask == DetectOutliers(Column(t, col), "iqr").mask
                      IN  [count |-> CountTrue(mask),
                           percentage |-> Percentage(CountTrue(mask), n)]],
              category_distribution |->
                  [cat \in Range(Column(t, "category")) |->
                      Count(t, LAMBDA r : r.category = cat)],
              price_statistics |->
                  [avg_mrp |-> Mean2(Column(t, "mrp")),
                   avg_selling_price |-> Mean2(Column(t, "discounted_selling_price")),
                   avg_discount |-> Mean2(Column(t, "discount_percent")),
                   max_discount |-> max_discount[1],
                   min_discount |-> min_discount[1]]]

ReportCells ==
    [category : {<<"S">>, <<"T">>}, mrp : {8, 800}, discount_percent : {1, 62}]

MkReportRow(k, c) ==
    [idx |-> k, category |-> c.category, name |-> <<"p">>, mrp |-> c.mrp,
     discount_percent |-> c.discount_percent, available_quantity |-> 5,
     discounted_selling_price |-> 3, weight_in_gms |-> 100,
     out_of_stock |-> FALSE, quantity |-> 1]

ReportTables ==
    {[k \in 1..Len(cs) |-> MkReportRow(k, cs[k])] : cs \in SeqsUpTo(ReportCells, MaxReportRows)}

ReportInit ==
    /\ report_df \in ReportTables
    /\ report = <<>>
    /\ report_pc = "call"
    /\ UtilIdle
    /\ RulesIdle
    /\ EtlIdle

GenerateReport ==
    /\ report_pc = "call"
    /\ report' = GenerateDataQualityReport(report_df)
    /\ report_pc' = IF report'.raised = "none" THEN "returned" ELSE "raised"
    /\ UNCHANGED <<report_df, rule_vars, etl_vars, util_vars>>

ReportNext == GenerateReport

SpecReport == ReportInit /\ [][ReportNext]_vars

\* ------------------------------------------------------------------ currency
\* DataProcessor.clean_currency_values.  Here a table is a function from its
\* column names to the columns, each a sequence of cells.  A cell is NaN
\* (<<>>) or <<x>>, x a record: kind "str" with its text, or kind "int" or
\* "float" with the amount v.  The amounts checked are whole numbers below
\* 10^16, which str() writes without an exponent.

Str(s) == <<[kind |-> "str", text |-> s]>>
IntCell(n) == <<[kind |-> "int", v |-> n]>>
FloatCell(n) == <<[kind |-> "float", v |-> n]>>

DigitChar(d) == <<"0", "1", "2", "3", "4", "5", "6", "7", "8", "9">>[d + 1]

\* str() of a whole number
RECURSIVE FormatInt(_)
FormatInt(n) ==
    IF n < 0 THEN <<"-">> \o FormatInt(0 - n)
    ELSE IF n < 10 THEN <<DigitChar(n)>>
    ELSE FormatInt(n \div 10) \o <<DigitChar(n % 10)>>

\* .astype(str) on one cell: the text of the cell.  NaN becomes the text
\* 'nan' (pandas < 3) or stays missing (pandas >= 3): keeps_na is the build.
AsTypeStr(c, keeps_na) ==
    IF IsNa(c)
    THEN IF keeps_na THEN NaN ELSE Txt(<<"n", "a", "n">>)
    ELSE IF c[1].kind = "str" THEN Txt(c[1].text)
    ELSE IF c[1].kind = "int" THEN Txt(FormatInt(c[1].v))
    ELSE Txt(FormatInt(c[1].v) \o <<".", "0">>)

\* .str.replace(ch, '') on one cell
StrReplace(c, ch) ==
    IF IsNa(c) THEN NaN ELSE Txt(SelectSeq(c[1], LAMBDA x : x # ch))

\* the position of the first '.' of a text, 0 if it has none
RECURSIVE IndexOfDot(_)
IndexOfDot(s) ==
    IF s = <<>> THEN 0
    ELSE IF s[1] = "." THEN 1
    ELSE LET rest == IndexOfDot(Tail(s)) IN IF rest = 0 THEN 0 ELSE rest + 1

\* pd.to_numeric(errors='coerce') on one text cell, keeping the type of the
\* number: digits parse to an integer, digits with a fraction of zeros to a
\* float, any other text of the tables checked to NaN
CurrencyToNumeric(c) ==
    IF IsNa(c) THEN NaN
    ELSE LET s == c[1]
             dot == IndexOfDot(s)
             whole == IF dot = 0 THEN s ELSE SubSeq(s, 1, dot - 1)
             frac == IF dot = 0 THEN <<>> ELSE SubSeq(s, dot + 1, Len(s))
             n == ToNumeric(Txt(whole))
         IN  IF IsNa(n) \/ \E i \in 1..Len(frac) : frac[i] # "0" THEN NaN
             ELSE IF dot = 0 THEN IntCell(n[1])
             ELSE FloatCell(n[1])

\* the column to_numeric returns: int64 when every cell parsed to an integer,
\* float64 otherwise
ToNumericColumn(col) ==
    LET parsed == [k \in 1..Len(col) |-> CurrencyToNumeric(col[k])]
        ints == \A k \in 1..Len(col) : ~IsNa(parsed[k]) /\ parsed[k][1].kind = "int"
    IN  [k \in 1..Len(col) |->
            IF ints \/ IsNa(parsed[k]) THEN parsed[k] ELSE FloatCell(parsed[k][1].v)]

\* lines 25-26: the column as text without the symbol and the separators,
\* then as numbers
ParseColumn(col, keeps_na) ==
    ToNumericColumn([k \in 1..Len(col) |->
        StrReplace(StrReplace(AsTypeStr(col[k], keeps_na), "₹"), ",")])

\* the amounts of a numeric column that are not NaN
Amounts(col) ==
    LET present == SelectSeq(col, LAMBDA c : ~IsNa(c))
    IN  [k \in 1..Len(present) |-> present[k][1].v]

\* cleaned_df[col].mean() > 100: mean() skips NaN, and the mean of no value
\* is NaN, which compares False
MeanAbove100(col) ==
    LET amounts == Amounts(col)
    IN  Len(amounts) > 0 /\ Sum(amounts) > 100 * Len(amounts)

\* cell * 100: NaN stays NaN
Times100(c) == IF IsNa(c) THEN NaN ELSE <<[c[1] EXCEPT !.v = 100 * @]>>

\* mutant: the decision is taken for each row on its own amount
ScaleColumnPerRow(col) ==
    [k \in 1..Len(col) |->
        IF ~IsNa(col[k]) /\ col[k][1].v > 100 THEN col[k] ELSE Times100(col[k])]

\* lines 29-32: the column as it is when its mean is above 100, else every
\* cell times 100
ScaleColumn(col) ==
    IF MeanAbove100(col) THEN col ELSE [k \in 1..Len(col) |-> Times100(col[k])]

\* one pass of the for loop over a column of the table
CleanColumn(col, keeps_na) == ScaleColumn(ParseColumn(col, keeps_na))

\* the tables and the lists clean_currency_values is called with
CurrencyNames == {"mrp", "discounted_selling_price"}

CurrencyMrps ==
    {Str(<<"₹", "1", ",", "2", "0", "0">>), IntCell(50), IntCell(150),
     Str(<<"x">>), NaN}

CurrencySellingPrices == {Str(<<"4", "0">>), FloatCell(250)}

ProductName == Str(<<"₹", "a">>)

CurrencyTables ==
    UNION {
        {[c \in {"name", "mrp"} |->
            IF c = "name" THEN [k \in 1..n |-> ProductName] ELSE ms]
            : ms \in [1..n -> CurrencyMrps]}
        \cup
        {[c \in {"name", "mrp", "discounted_selling_price"} |->
            IF c = "name" THEN [k \in 1..n |-> ProductName]
            ELSE IF c = "mrp" THEN ms ELSE ds]
            : ms \in [1..n -> CurrencyMrps], ds \in [1..n -> CurrencySellingPrices]}
        : n \in 0..MaxCurrencyRows}

CurrencyLists == SeqsUpTo(CurrencyNames, 2)

CurrencyInit ==
    /\ cur_df \in CurrencyTables
    /\ cur_arg = cur_df
    /\ currency_columns \in CurrencyLists
    /\ cleaned_df = <<>>
    /\ cur_k = 0
    /\ cur_pc = "call"
    /\ astype_str_keeps_na \in BOOLEAN
    /\ PipelineIdle
    /\ RulesIdle
    /\ ReportIdle
    /\ OutlierIdle

\* line 20: cleaned_df = df.copy()
CopyDf ==
    /\ cur_pc = "call"
    /\ cleaned_df' = cur_df
    /\ cur_k' = 1
    /\ cur_pc' = "loop"
    /\ UNCHANGED <<cur_df, cur_arg, currency_columns, outlier_vars,
                   rule_vars, etl_vars, report_vars>>

\* lines 22-32: one pass of the for loop
CleanNext ==
    /\ cur_pc = "loop"
    /\ cur_k <= Len(currency_columns)
    /\ LET col == currency_columns[cur_k]
       IN  cleaned_df' =
               IF col \in DOMAIN cleaned_df
               THEN [cleaned_df EXCEPT ![col] = CleanColumn(@, astype_str_keeps_na)]
               ELSE cleaned_df
    /\ cur_k' = cur_k + 1
    /\ UNCHANGED <<cur_df, cur_arg, currency_columns, cur_pc, outlier_vars,
                   rule_vars, etl_vars, report_vars>>

\* line 34: return cleaned_df
ReturnCleaned ==
    /\ cur_pc = "loop"
    /\ cur_k > Len(currency_columns)
    /\ cur_pc' = "returned"
    /\ UNCHANGED <<cur_df, cur_arg, currency_columns, cleaned_df, cur_k,
                   outlier_vars, rule_vars, etl_vars, report_vars>>

CurrencyNext == CopyDf \/ CleanNext \/ ReturnCleaned

SpecCurrency == CurrencyInit /\ [][CurrencyNext]_vars

\* ------------------------------------------------------------------ outliers
\* DataProcessor.detect_outliers called on a column of whole numbers.  Ten
\* rows of 5 and one of 85 put the 85 more than three deviations from the mean.

OutlierValues == {5, 85}

OutlierColumns == SeqsUpTo(OutlierValues, MaxOutlierRows)

OutlierMethods == {"iqr", "zscore", "mad", "ZSCORE"}

OutlierInit ==
    /\ out_column \in OutlierColumns
    /\ out_method \in OutlierMethods
    /\ out_result = <<>>
    /\ out_pc = "call"
    /\ CurrencyIdle
    /\ RulesIdle
    /\ EtlIdle
    /\ ReportIdle

DetectOutliersCall ==
    /\ out_pc = "call"
    /\ out_result' = DetectOutliers(out_column, out_method)
    /\ out_pc' = IF out_result'.raised = "none" THEN "returned" ELSE "raised"
    /\ UNCHANGED <<out_column, out_method, currency_vars, rule_vars, etl_vars,
                   report_vars>>

OutlierNext == DetectOutliersCall

SpecOutliers == OutlierInit /\ [][OutlierNext]_vars

\* ------------------------------------------------------------------ claims

Idxs(t) == [i \in 1..Len(t) |-> t[i].idx]

\* the row of the call's argument that has r's index label
ArgRow(r) == CHOOSE o \in Range(df) : o.idx = r.idx

AfterRule1 == pc \in {"rule2", "rule3", "rule4", "done"}
AfterRule2 == pc \in {"rule3", "rule4", "done"}

\* C1: every row validate_business_rules returns has
\* out_of_stock = (available_quantity = 0), for any integer available_quantity.
C1_StockFlagMatchesQuantity ==
    pc = "done" =>
        \A r \in Range(valid_df) : r.out_of_stock = (r.available_quantity = 0)

C3_OnlyRule1Removes ==
    LET kept == SelectSeq(df, LAMBDA r : r.mrp >= r.discounted_selling_price)
        k == Len(df) - Len(kept)
        removed == <<"Removed", k, "products with MRP < Selling Price">>
    IN  AfterRule1 =>
            /\ Idxs(valid_df) = Idxs(kept)
            /\ \A i \in 1..Len(kept) :
                   /\ valid_df[i].mrp = kept[i].mrp
                   /\ valid_df[i].discounted_selling_price =
                          kept[i].discounted_selling_price
            /\ k >= 1 => validation_messages # <<>> /\ validation_messages[1] = removed
            /\ k = 0 => \A m \in Range(validation_messages) : m[1] # "Removed"

C3_Witness ==
    /\ pc = "done"
    /\ pass = 1
    /\ Len(df) = 2
    /\ Len(valid_df) = 1
    /\ valid_df[1].idx = 2

\* C4: applying validate_business_rules to the table it returned yields no
\* message and the same table.
C4_Idempotent ==
    (pc = "done" /\ pass = 2) => (validation_messages = <<>> /\ valid_df = df)

C4_Witness ==
    /\ pc = "done"
    /\ pass = 2
    /\ Len(first_df) > Len(df)
    /\ \E r \in Range(df) : \E o \in Range(first_df) :
           /\ o.idx = r.idx
           /\ o.discount_percent # r.discount_percent
           /\ o.available_quantity # r.available_quantity

\* C10: rule 3 runs before rule 4; rule 3 sets available_quantity to 0 in the
\* rows with out_of_stock and available_quantity > 0 and changes nothing else;
\* rule 4 sets out_of_stock in the rows with available_quantity = 0 and
\* out_of_stock false and changes nothing else; a row in stock with a positive
\* quantity is changed by neither.
C10_StockRulesFrame ==
    [][/\ pc = "rule3" =>
            /\ pc' = "rule4"
            /\ Len(valid_df') = Len(valid_df)
            /\ \A i \in 1..Len(valid_df) :
                   valid_df'[i] =
                       [valid_df[i] EXCEPT !.available_quantity =
                            IF valid_df[i].out_of_stock /\ valid_df[i].available_quantity > 0
                            THEN 0 ELSE valid_df[i].available_quantity]
       /\ pc = "rule4" =>
            /\ pc' = "done"
            /\ Len(valid_df') = Len(valid_df)
            /\ \A i \in 1..Len(valid_df) :
                   valid_df'[i] =
                       [valid_df[i] EXCEPT !.out_of_stock =
                            IF valid_df[i].available_quantity = 0 /\ ~valid_df[i].out_of_stock
                            THEN TRUE ELSE valid_df[i].out_of_stock]
      ]_vars

C10_Witness ==
    /\ pc = "done"
    /\ pass = 1
    /\ \E r \in Range(valid_df) :
           /\ ArgRow(r).out_of_stock /\ ArgRow(r).available_quantity > 0
           /\ r.out_of_stock /\ r.available_quantity = 0
    /\ \E r \in Range(valid_df) :
           /\ ~ArgRow(r).out_of_stock /\ ArgRow(r).available_quantity = 0
           /\ r.out_of_stock /\ r.available_quantity = 0

\* C5: the rows handed to load_data are the result of rules 1-4 on the
\* normalizer's output, and no row with mrp < discounted_selling_price is in
\* the sink after a successful run.
C5_LoadedRowsPassedRuleEngine ==
    /\ load_df # <<>> =>
           load_df[1] = ValidateBusinessRules(transformed_data).df
    /\ status = "success" => \A t \in Range(zepto) : t[3] >= t[6]

\* C6: while load_data runs and after it raised, the committed rows of zepto
\* are those of before the call (and no transaction stays open after it
\* raised); after it returned, they are exactly the new rows.
C6_LoadAtomic ==
    /\ etl_pc \in {"create_table", "truncate", "insert", "load_except"} =>
           zepto = zepto_before
    /\ load_result = "raised" => (zepto = zepto_before /\ txn = NoTxn)
    /\ load_result = "true" =>
           zepto = [k \in 1..Len(transformed_data) |-> RowTuple(transformed_data[k])]

\* a batch fails after an earlier batch went in, over a table that held rows
C6_Witness ==
    /\ etl_pc = "load_except"
    /\ zepto_before # <<>>
    /\ txn # NoTxn
    /\ Len(txn[1]) >= 1
    /\ Len(txn[1]) < Len(data_tuples)
    /\ zepto = zepto_before

TransformDone == etl_pc = "load"

RawRow(r) == CHOOSE o \in Range(raw_data) : o.idx = r.idx

Kept(o) == \E r \in Range(transformed_data) : r.idx = o.idx

\* C7: transform_data drops every row with a missing category, name, mrp or
\* discounted_selling_price and every row with a price <= 0, so every row it
\* outputs has a category and a name that were present and positive prices.
C7_EssentialsPresent ==
    TransformDone =>
        /\ \A o \in Range(raw_data) :
               (\/ IsNa(o.Category) \/ IsNa(o.name)
                \/ ~Gt(ToNumeric(o.mrp), 0)
                \/ ~Gt(ToNumeric(o.discountedSellingPrice), 0)) => ~Kept(o)
        /\ \A r \in Range(transformed_data) :
               /\ ~IsNa(RawRow(r).Category) /\ ~IsNa(RawRow(r).name)
               /\ r.mrp > 0 /\ r.discounted_selling_price > 0

ValidEssentials(o) ==
    /\ ~IsNa(o.Category) /\ ~IsNa(o.name)
    /\ Gt(ToNumeric(o.mrp), 0)
    /\ Gt(ToNumeric(o.discountedSellingPrice), 0)

NumericOutOfRange(c) == ~IsNa(c) /\ (c[1] < 0 \/ c[1] > 100)

\* C8 as stated: among the rows with valid essentials, only those with a
\* numeric discount_percent outside [0,100] are dropped; one with a missing
\* discount_percent is kept.
C8_MissingDiscountKept ==
    TransformDone =>
        \A o \in Range(raw_data) :
            ValidEssentials(o) =>
                (Kept(o) <=> ~NumericOutOfRange(ToNumeric(o.discountPercent)))

\* C8 as amended: among the rows with valid essentials, exactly those with a
\* numeric discount_percent in [0,100] are kept; a missing discount_percent
\* drops the row, like a numeric one outside [0,100].
C8_OnlyNumericInRangeKept ==
    TransformDone =>
        \A o \in Range(raw_data) :
            ValidEssentials(o) =>
                LET d == ToNumeric(o.discountPercent)
                IN  Kept(o) <=> (~IsNa(d) /\ d[1] >= 0 /\ d[1] <= 100)

C8_Witness ==
    /\ TransformDone
    /\ \E o \in Range(raw_data) :
           /\ ValidEssentials(o)
           /\ IsNa(ToNumeric(o.discountPercent))
           /\ ~Kept(o)

\* C9: generate_data_quality_report on a table with zero rows raises nothing
\* and returns a report with total_rows = 0.
C9_EmptyTableReport ==
    (report_pc # "call" /\ Len(report_df) = 0) =>
        (report_pc = "returned" /\ report.total_rows = 0)

\* the number a cell of a listed column stands for: the text without the
\* symbol and the separators read as a number, NaN if it is none
ParsedAmount(c) ==
    LET n == CurrencyToNumeric(StrReplace(StrReplace(
                 AsTypeStr(c, astype_str_keeps_na), "₹"), ","))
    IN  IF IsNa(n) THEN NaN ELSE <<n[1].v>>

CellAmount(c) == IF IsNa(c) THEN NaN ELSE <<c[1].v>>

\* one pass of the loop over a column: the mean of the parsed amounts decides
\* for all of its rows
C11_ColumnPass(before, after) ==
    LET parsed == [k \in 1..Len(before) |-> ParsedAmount(before[k])]
        present == SelectSeq(parsed, LAMBDA a : ~IsNa(a))
        total == Sum([k \in 1..Len(present) |-> present[k][1]])
    IN  /\ Len(after) = Len(before)
        /\ (present # <<>> /\ total > 100 * Len(present)) =>
               \A k \in 1..Len(before) : CellAmount(after[k]) = parsed[k]
        /\ (present # <<>> /\ total <= 100 * Len(present)) =>
               \A k \in 1..Len(before) :
                   CellAmount(after[k]) =
                       IF IsNa(parsed[k]) THEN NaN ELSE <<100 * parsed[k][1]>>

C11_Step ==
    /\ cur_df' = cur_arg'
    /\ cur_pc' \in {"loop", "returned"} => DOMAIN cleaned_df' = DOMAIN cur_df
    /\ (cur_pc = "loop" /\ cur_pc' = "loop") =>
           LET col == currency_columns[cur_k]
           IN  /\ \A c \in DOMAIN cleaned_df \ {col} : cleaned_df'[c] = cleaned_df[c]
               /\ col \in DOMAIN cleaned_df =>
                      C11_ColumnPass(cleaned_df[col], cleaned_df'[col])
    /\ cur_pc' = "returned" =>
           \A c \in DOMAIN cur_df \ Range(currency_columns) :
               cleaned_df'[c] = cur_df[c]

\* C11: clean_currency_values decides once for each listed column, on the
\* mean of the column's parsed amounts: a mean of at most 100 multiplies every
\* amount of the column by 100, a mean above 100 leaves every amount as
\* parsed.  A column that is not listed is returned as it was, a listed name
\* the table does not have adds no column, and the argument table is the
\* table it was at the call.
C11_OneDecisionPerColumn == [][C11_Step]_vars

\* both columns listed once: mrp has a mean above 100 and keeps an amount of
\* at most 100 unscaled; discounted_selling_price has a mean of at most 100
\* and every amount of it is scaled
C11_Witness ==
    /\ cur_pc = "returned"
    /\ currency_columns = <<"mrp", "discounted_selling_price">>
    /\ "discounted_selling_price" \in DOMAIN cur_df
    /\ cur_df.mrp = <<Str(<<"₹", "1", ",", "2", "0", "0">>), IntCell(50)>>
    /\ cleaned_df.mrp = <<IntCell(1200), IntCell(50)>>
    /\ cur_df.discounted_selling_price = <<Str(<<"4", "0">>), Str(<<"4", "0">>)>>
    /\ cleaned_df.discounted_selling_price = <<IntCell(4000), IntCell(4000)>>
    /\ cleaned_df.name = cur_df.name

AllEqual(vals) == \A j, k \in 1..Len(vals) : vals[j] = vals[k]

\* C12: detect_outliers with method 'zscore' on a column whose values are all
\* equal returns, without an error, a mask over the column's rows that marks
\* none of them; with a method that is neither 'iqr' nor 'zscore' it raises
\* ValueError and returns no mask.
C12_ZeroVarianceAndBadMethod ==
    out_pc \in {"returned", "raised"} =>
        /\ (out_method = "zscore" /\ AllEqual(out_column)) =>
               /\ out_pc = "returned"
               /\ out_result.raised = "none"
               /\ Len(out_result.mask) = Len(out_column)
               /\ \A k \in 1..Len(out_column) : out_result.mask[k] = FALSE
        /\ out_method \notin {"iqr", "zscore"} =>
               /\ out_pc = "raised"
               /\ out_result.raised = "ValueError"
               /\ out_result.mask = <<>>

\* the z-score method has returned for several rows of one value
C12_Witness ==
    /\ out_pc = "returned"
    /\ out_method = "zscore"
    /\ Len(out_column) >= 2
    /\ AllEqual(out_column)
    /\ Range(out_result.mask) = {FALSE}

====
